---- MODULE Spec2Model ----
(***************************************************************************)
(* CuteLy URL shortener: the UrlService resolution engine over the durable *)
(* store (UrlRepository / Prisma) and the Redis cache.                     *)
(*                                                                         *)
(* The repository carries several iterations of UrlService; two of them    *)
(* are modelled here:                                                      *)
(*   "random"  src/src/services/url.service.ts:7-347  (random slug with    *)
(*             retry, short:<slug> cache, click tracking)                  *)
(*   "derived" src/unnamed/part_002:6-141 (slug = toBase62(id),            *)
(*             long:<url> and slug:<slug> caches)                          *)
(* impl fixes which iteration is deployed; a handler is one action, and in  *)
(* the concurrent specifications one action per await, with the requests   *)
(* in flight held in inflight.                                             *)
(* Characters are one-character strings, a slug is a sequence of them and  *)
(* the empty sequence is the placeholder slug "".                          *)
(***************************************************************************)
EXTENDS Integers, Sequences, FiniteSets, TLC

VARIABLES impl, store, nextId, clicks, shortCache, longCache, last, deleted,
          inflight

vars == <<impl, store, nextId, clicks, shortCache, longCache, last, deleted,
          inflight>>

-----------------------------------------------------------------------------
(* Bounds *)

\* number of service calls in one behaviour
MaxCalls == 4
\* number of slugs generateSlug can draw in the model
PoolSize == 2

Urls == {"https://a", "https://b"}
Users == {"user1", "user2"}

-----------------------------------------------------------------------------
(* Values *)

\* userId column of a record without owner (Prisma returns null)
NULL == "null"
\* the omitted userId argument of shortenUrl
UNDEFINED == "undefined"

maxAttempts == 10

NotFound == "URL not found"
AccessDenied == "Access denied"
SlugExhausted == "Failed to generate unique slug after maximum attempts"

-----------------------------------------------------------------------------
(* Base62 codec *)

base62Chars ==
  << "0","1","2","3","4","5","6","7","8","9",
     "a","b","c","d","e","f","g","h","i","j","k","l","m",
     "n","o","p","q","r","s","t","u","v","w","x","y","z",
     "A","B","C","D","E","F","G","H","I","J","K","L","M",
     "N","O","P","Q","R","S","T","U","V","W","X","Y","Z" >>

\* bug variant: the position counted from 1
indexOf_oneBased(c) ==
  IF \E i \in 1..Len(base62Chars) : base62Chars[i] = c
  THEN CHOOSE i \in 1..Len(base62Chars) : base62Chars[i] = c
  ELSE -1

\* String.prototype.indexOf on the alphabet: 0-based index, -1 when absent
indexOf(c) ==
  IF \E i \in 1..Len(base62Chars) : base62Chars[i] = c
  THEN (CHOOSE i \in 1..Len(base62Chars) : base62Chars[i] = c) - 1
  ELSE -1

RECURSIVE toBase62Digits(_, _)
\* first loop of toBase62: prepend base62Chars[n % 62] while n > 0
toBase62Digits(n, code) ==
  IF n > 0
  THEN toBase62Digits(n \div 62, <<base62Chars[(n % 62) + 1]>> \o code)
  ELSE code

RECURSIVE padLeft(_)
\* second loop of toBase62: prepend "0" while code.length < 6
padLeft(code) == IF Len(code) < 6 THEN padLeft(<<"0">> \o code) ELSE code

\* bug variant: the padding loop is left out
toBase62_unpadded(n) == toBase62Digits(n, <<>>)

toBase62(n) == padLeft(toBase62Digits(n, <<>>))

RECURSIVE toBase10Acc(_, _)
toBase10Acc(code, id) ==
  IF code = <<>> THEN id
  ELSE toBase10Acc(Tail(code), id * 62 + indexOf(Head(code)))

toBase10(code) == toBase10Acc(code, 0)

\* Number.isSafeInteger: every id decoded from the slugs of the model is an
\* integer far below 2^53
isSafeInteger(id) == id \in Int

\* the slugs generateSlug draws from (6 random alphabet characters)
generateSlug == { toBase62(i) : i \in 1..PoolSize }

\* slugs a client asks for: well-formed ones, and "1", which is not a slug
\* any record carries but decodes to id 1
SlugInputs == { toBase62(i) : i \in 1..(PoolSize + 1) } \cup { <<"1">> }

-----------------------------------------------------------------------------
(* Durable store: UrlRepository over the urls table *)

\* rows matching where: { slug } (slug is @unique: at most one)
findBySlug(st, slug) == { id \in DOMAIN st : st[id].slug = slug }

\* rows matching where: { id }
findById(st, id) == { i \in DOMAIN st : i = id }

\* rows findFirst({ where: { originalUrl } }) may return: no owner filter and
\* no orderBy, so any matching row
findByOriginalUrl(st, url) == { id \in DOMAIN st : st[id].originalUrl = url }

\* prisma.url.create with slug "" ; an omitted userId is stored as null
createUrl(st, id, url, userId) ==
  [ i \in DOMAIN st \cup {id} |->
      IF i = id
      THEN [ id |-> id, slug |-> <<>>, originalUrl |-> url,
             userId |-> IF userId = UNDEFINED THEN NULL ELSE userId,
             hitCount |-> 0 ]
      ELSE st[i] ]

updateSlug(st, id, slug) == [ st EXCEPT ![id].slug = slug ]

\* bug variant: the update is lost
incrementHitCount_lost(st, slug) == st

incrementHitCount(st, slug) ==
  [ i \in DOMAIN st |->
      IF st[i].slug = slug THEN [ st[i] EXCEPT !.hitCount = @ + 1 ] ELSE st[i] ]

\* prisma.url.delete({ where: { id } })
repoDeleteUrl(st, id) == [ i \in DOMAIN st \ {id} |-> st[i] ]

\* clicks table: rows per url; Click.url is onDelete: Cascade
trackClickRow(ck, id) ==
  [ i \in DOMAIN ck \cup {id} |-> IF i \in DOMAIN ck /\ i # id THEN ck[i]
                                  ELSE IF i \in DOMAIN ck THEN ck[i] + 1 ELSE 1 ]

cascadeClicks(ck, id) == [ i \in DOMAIN ck \ {id} |-> ck[i] ]

-----------------------------------------------------------------------------
(* Cache: redis get / set / setex / del on one namespace *)

cacheGet(c, k) == IF k \in DOMAIN c THEN {c[k]} ELSE {}

cacheSet(c, k, v) == [ x \in DOMAIN c \cup {k} |-> IF x = k THEN v ELSE c[x] ]

cacheDel(c, k) == [ x \in DOMAIN c \ {k} |-> c[x] ]

-----------------------------------------------------------------------------
(* Observation of the last finished call *)

RepoMethods == { "findByOriginalUrl", "findBySlug", "findById", "createUrl",
                 "updateSlug", "incrementHitCount", "deleteUrl", "trackClick" }

NoCalls == [ m \in RepoMethods |-> 0 ]

Called(c, ms) == [ m \in RepoMethods |-> IF m \in ms THEN c[m] + 1 ELSE c[m] ]

CalledTimes(c, m, k) == [ c EXCEPT ![m] = @ + k ]

RECURSIVE SumCalls(_, _)
SumCalls(c, ms) ==
  IF ms = {} THEN 0
  ELSE LET m == CHOOSE x \in ms : TRUE IN c[m] + SumCalls(c, ms \ {m})

TotalCalls(c) == SumCalls(c, RepoMethods)

\* op, arguments, outcome (slug / url / error, "" or <<>> when absent) and the
\* repository calls the handler made
Call(op, url, userId, slug, clickData, outSlug, outUrl, error, calls, fresh) ==
  [ n |-> last.n + 1, op |-> op, url |-> url, userId |-> userId, slug |-> slug,
    clickData |-> clickData, outSlug |-> outSlug, outUrl |-> outUrl,
    error |-> error, calls |-> calls, fresh |-> fresh ]

EmptyMap == [ x \in {} |-> 0 ]

\* requests that can be in flight at the same time (the handlers are async:
\* every await lets another request run)
Procs == {"r1", "r2"}

\* no request in flight
NoRequests == [ p \in Procs |-> [ pc |-> "idle" ] ]

Init ==
  /\ impl \in {"random", "derived"}
  /\ store = EmptyMap
  /\ nextId = 1
  /\ clicks = EmptyMap
  /\ shortCache = EmptyMap
  /\ longCache = EmptyMap
  /\ deleted = {}
  /\ inflight = NoRequests
  /\ last = [ n |-> 0, op |-> "none", url |-> "", userId |-> UNDEFINED,
              slug |-> <<>>, clickData |-> FALSE, outSlug |-> <<>>,
              outUrl |-> "", error |-> "", calls |-> NoCalls, fresh |-> FALSE ]

-----------------------------------------------------------------------------
(* Conditions of the handlers *)

\* bug variant: the anonymous-only guard of the cache writes is dropped
Anonymous_always(userId) == TRUE

\* `!userId`: the call carries no user
Anonymous(userId) == userId = UNDEFINED

\* `existingUrl.userId === userId` (strict equality: null is not undefined)
sameUser(rec, userId) == rec.userId = userId

\* bug variant: deleteUrl without the ownership check
ownedBy_unchecked(rec, userId) == TRUE

\* negation of `urlRecord.userId !== userId` in deleteUrl
ownedBy(rec, userId) == rec.userId = userId

\* bug variant: shortenUrl never reads the long: cache
longCacheLookup_skipped(url, userId) == {}

\* `redis.get(long:<originalUrl>)` of shortenUrl, consulted only when anonymous
longCacheLookup(url, userId) ==
  IF Anonymous(userId) THEN cacheGet(longCache, url) ELSE {}

\* null, the result of a find that matched no row
NoRow == 0

-----------------------------------------------------------------------------
(* UrlService, iteration "random": src/src/services/url.service.ts *)

\* numbers of colliding draws the model follows: none, the most that still
\* succeeds, and exhaustion
CollisionCases == {0, maxAttempts - 1, maxAttempts}

\* bug variant: the first draw is returned without a look at the store
generateUniqueSlug_unchecked(st) ==
  { [ collisions |-> 0, slug |-> s ] : s \in generateSlug }

\* generateUniqueSlug: up to maxAttempts draws, each checked with findBySlug.
\* An outcome is the number of colliding draws and the slug returned; after
\* maxAttempts collisions there is none (<<>>) and the call throws.
generateUniqueSlug(st) ==
  LET taken == { s \in generateSlug : findBySlug(st, s) # {} }
      free  == generateSlug \ taken
  IN  { [ collisions |-> c, slug |-> s ] :
          c \in (IF taken = {} THEN {0}
                 ELSE CollisionCases \cap 0..(maxAttempts - 1)),
          s \in free }
      \cup
      (IF taken = {} THEN {}
       ELSE { [ collisions |-> maxAttempts, slug |-> <<>> ] })

\* trackClick: looks the record up again and inserts a click row for it,
\* whatever clickData is
trackClick(st, ck, slug) ==
  LET rec == findBySlug(st, slug)
  IN  IF rec = {}
      THEN [ clicks |-> ck, calls |-> Called(NoCalls, {"findBySlug"}) ]
      ELSE [ clicks |-> trackClickRow(ck, CHOOSE id \in rec : TRUE),
             calls  |-> Called(NoCalls, {"findBySlug", "trackClick"}) ]

AddCalls(a, b) == [ m \in RepoMethods |-> a[m] + b[m] ]

shortenUrlRandom(url, userId) ==
  /\ impl = "random"
  /\ last.n < MaxCalls
  /\ LET found == findByOriginalUrl(store, url)
         c0    == Called(NoCalls, {"findByOriginalUrl"})
     IN  \E existing \in (IF found = {} THEN {NoRow} ELSE found) :
           IF existing # NoRow /\ sameUser(store[existing], userId)
           THEN /\ last' = Call("shorten", url, userId, <<>>, FALSE,
                                store[existing].slug, "", "", c0, found = {})
                /\ UNCHANGED <<impl, inflight, store, nextId, clicks, shortCache,
                               longCache, deleted>>
           ELSE \E g \in generateUniqueSlug(store) :
                  LET c1 == CalledTimes(c0, "findBySlug",
                              IF g.collisions = maxAttempts
                              THEN maxAttempts ELSE g.collisions + 1)
                  IN  IF g.collisions = maxAttempts
                      THEN /\ last' = Call("shorten", url, userId, <<>>, FALSE,
                                           <<>>, "", SlugExhausted, c1,
                                           found = {})
                           /\ UNCHANGED <<impl, inflight, store, nextId, clicks,
                                          shortCache, longCache, deleted>>
                      ELSE /\ store' = updateSlug(
                                createUrl(store, nextId, url, userId),
                                nextId, g.slug)
                           /\ nextId' = nextId + 1
                           /\ shortCache' = IF Anonymous(userId)
                                            THEN cacheSet(shortCache, g.slug, url)
                                            ELSE shortCache
                           /\ last' = Call("shorten", url, userId, <<>>, FALSE,
                                           g.slug, "", "",
                                           Called(c1, {"createUrl", "updateSlug"}),
                                           found = {})
                           /\ UNCHANGED <<impl, inflight, clicks, longCache, deleted>>

getOriginalUrlRandom(slug, clickData) ==
  /\ impl = "random"
  /\ last.n < MaxCalls
  /\ LET cached == cacheGet(shortCache, slug)
         rec    == findBySlug(store, slug)
         t      == trackClick(store, clicks, slug)
     IN  IF cached # {}
         THEN /\ clicks' = t.clicks
              /\ last' = Call("resolve", "", UNDEFINED, slug, clickData, <<>>,
                              CHOOSE u \in cached : TRUE, "", t.calls, FALSE)
              /\ UNCHANGED <<impl, inflight, store, nextId, shortCache, longCache, deleted>>
         ELSE IF rec = {}
         THEN /\ last' = Call("resolve", "", UNDEFINED, slug, clickData, <<>>,
                              "", NotFound, Called(NoCalls, {"findBySlug"}),
                              FALSE)
              /\ UNCHANGED <<impl, inflight, store, nextId, clicks, shortCache,
                             longCache, deleted>>
         ELSE LET id == CHOOSE i \in rec : TRUE
              IN  /\ store' = incrementHitCount(store, slug)
                  /\ clicks' = t.clicks
                  /\ shortCache' = cacheSet(shortCache, slug,
                                            store[id].originalUrl)
                  /\ last' = Call("resolve", "", UNDEFINED, slug, clickData,
                                  <<>>, store[id].originalUrl, "",
                                  AddCalls(Called(NoCalls, {"findBySlug",
                                                   "incrementHitCount"}),
                                           t.calls),
                                  FALSE)
                  /\ UNCHANGED <<impl, inflight, nextId, longCache, deleted>>

\* removeFromCache: redis.del(short:<slug>)
removeFromCache(c, slug) == cacheDel(c, slug)

deleteUrlRandom(slug, userId) ==
  /\ impl = "random"
  /\ last.n < MaxCalls
  /\ LET rec == findBySlug(store, slug)
         c0  == Called(NoCalls, {"findBySlug"})
     IN  IF rec = {}
         THEN /\ last' = Call("delete", "", userId, slug, FALSE, <<>>, "",
                              NotFound, c0, FALSE)
              /\ UNCHANGED <<impl, inflight, store, nextId, clicks, shortCache,
                             longCache, deleted>>
         ELSE LET id == CHOOSE i \in rec : TRUE
              IN  IF ~ownedBy(store[id], userId)
                  THEN /\ last' = Call("delete", "", userId, slug, FALSE, <<>>,
                                       "", AccessDenied, c0, FALSE)
                       /\ UNCHANGED <<impl, inflight, store, nextId, clicks, shortCache,
                                      longCache, deleted>>
                  ELSE /\ store' = repoDeleteUrl(store, id)
                       /\ clicks' = cascadeClicks(clicks, id)
                       /\ shortCache' = removeFromCache(shortCache, slug)
                       /\ deleted' = deleted \cup {slug}
                       /\ last' = Call("delete", store[id].originalUrl, userId,
                                       slug, FALSE, <<>>, "", "",
                                       Called(c0, {"deleteUrl"}), FALSE)
                       /\ UNCHANGED <<impl, inflight, nextId, longCache>>

-----------------------------------------------------------------------------
(* UrlService, iteration "derived": src/unnamed/part_002 *)

shortenUrlDerived(url, userId) ==
  /\ impl = "derived"
  /\ last.n < MaxCalls
  /\ LET cachedSlug == longCacheLookup(url, userId)
         found      == findByOriginalUrl(store, url)
         c0         == Called(NoCalls, {"findByOriginalUrl"})
     IN  IF cachedSlug # {}
         THEN /\ last' = Call("shorten", url, userId, <<>>, FALSE,
                              CHOOSE s \in cachedSlug : TRUE, "", "", NoCalls,
                              found = {})
              /\ UNCHANGED <<impl, inflight, store, nextId, clicks, shortCache,
                             longCache, deleted>>
         ELSE \E existing \in (IF found = {} THEN {NoRow} ELSE found) :
                IF existing # NoRow /\ store[existing].slug # <<>>
                THEN /\ longCache' = IF Anonymous(userId)
                                     THEN cacheSet(longCache, url,
                                                   store[existing].slug)
                                     ELSE longCache
                     /\ last' = Call("shorten", url, userId, <<>>, FALSE,
                                     store[existing].slug, "", "", c0,
                                     found = {})
                     /\ UNCHANGED <<impl, inflight, store, nextId, clicks, shortCache,
                                    deleted>>
                ELSE LET slug == toBase62(nextId)
                     IN  /\ store' = updateSlug(
                                createUrl(store, nextId, url, userId),
                                nextId, slug)
                         /\ nextId' = nextId + 1
                         /\ longCache' = IF Anonymous(userId)
                                         THEN cacheSet(longCache, url, slug)
                                         ELSE longCache
                         /\ last' = Call("shorten", url, userId, <<>>, FALSE,
                                         slug, "", "",
                                         Called(c0, {"createUrl", "updateSlug"}),
                                         found = {})
                         /\ UNCHANGED <<impl, inflight, clicks, shortCache, deleted>>

\* the resolve cache of this iteration is keyed slug:<slug>; shortCache holds
\* that namespace
getOriginalUrlDerived(slug) ==
  /\ impl = "derived"
  /\ last.n < MaxCalls
  /\ LET cached == cacheGet(shortCache, slug)
         id     == toBase10(slug)
         rec    == findById(store, id)
     IN  IF cached # {}
         THEN /\ last' = Call("resolve", "", UNDEFINED, slug, FALSE, <<>>,
                              CHOOSE u \in cached : TRUE, "", NoCalls, FALSE)
              /\ UNCHANGED <<impl, inflight, store, nextId, clicks, shortCache,
                             longCache, deleted>>
         ELSE IF ~isSafeInteger(id) \/ id < 1
         THEN /\ last' = Call("resolve", "", UNDEFINED, slug, FALSE, <<>>, "",
                              NotFound, NoCalls, FALSE)
              /\ UNCHANGED <<impl, inflight, store, nextId, clicks, shortCache,
                             longCache, deleted>>
         ELSE IF rec = {}
         THEN /\ last' = Call("resolve", "", UNDEFINED, slug, FALSE, <<>>, "",
                              NotFound, Called(NoCalls, {"findById"}), FALSE)
              /\ UNCHANGED <<impl, inflight, store, nextId, clicks, shortCache,
                             longCache, deleted>>
         ELSE /\ store' = incrementHitCount(store, store[id].slug)
              /\ shortCache' = cacheSet(shortCache, slug, store[id].originalUrl)
              /\ last' = Call("resolve", "", UNDEFINED, slug, FALSE, <<>>,
                              store[id].originalUrl, "",
                              Called(NoCalls, {"findById", "incrementHitCount"}),
                              FALSE)
              /\ UNCHANGED <<impl, inflight, nextId, clicks, longCache, deleted>>

deleteUrlDerived(slug, userId) ==
  /\ impl = "derived"
  /\ last.n < MaxCalls
  /\ LET rec == findBySlug(store, slug)
         c0  == Called(NoCalls, {"findBySlug"})
     IN  IF rec = {}
         THEN /\ last' = Call("delete", "", userId, slug, FALSE, <<>>, "",
                              NotFound, c0, FALSE)
              /\ UNCHANGED <<impl, inflight, store, nextId, clicks, shortCache,
                             longCache, deleted>>
         ELSE LET id == CHOOSE i \in rec : TRUE
              IN  IF ~ownedBy(store[id], userId)
                  THEN /\ last' = Call("delete", "", userId, slug, FALSE, <<>>,
                                       "", AccessDenied, c0, FALSE)
                       /\ UNCHANGED <<impl, inflight, store, nextId, clicks, shortCache,
                                      longCache, deleted>>
                  ELSE /\ store' = repoDeleteUrl(store, id)
                       /\ clicks' = cascadeClicks(clicks, id)
                       /\ deleted' = deleted \cup {slug}
                       /\ last' = Call("delete", store[id].originalUrl, userId,
                                       slug, FALSE, <<>>, "", "",
                                       Called(c0, {"deleteUrl"}), FALSE)
                       /\ UNCHANGED <<impl, inflight, nextId, shortCache, longCache>>

-----------------------------------------------------------------------------
(* Redis expiry: every entry is written with a one-hour TTL *)

expireShort ==
  /\ \E k \in DOMAIN shortCache : shortCache' = cacheDel(shortCache, k)
  /\ UNCHANGED <<impl, inflight, store, nextId, clicks, longCache, last, deleted>>

expireLong ==
  /\ \E k \in DOMAIN longCache : longCache' = cacheDel(longCache, k)
  /\ UNCHANGED <<impl, inflight, store, nextId, clicks, shortCache, last, deleted>>

-----------------------------------------------------------------------------

UserArgs == Users \cup {UNDEFINED}

Next ==
  \/ \E url \in Urls, userId \in UserArgs : shortenUrlRandom(url, userId)
  \/ \E slug \in SlugInputs, clickData \in BOOLEAN :
       getOriginalUrlRandom(slug, clickData)
  \/ \E slug \in SlugInputs, userId \in Users : deleteUrlRandom(slug, userId)
  \/ \E url \in Urls, userId \in UserArgs : shortenUrlDerived(url, userId)
  \/ \E slug \in SlugInputs : getOriginalUrlDerived(slug)
  \/ \E slug \in SlugInputs, userId \in Users : deleteUrlDerived(slug, userId)
  \/ expireShort
  \/ expireLong

\* both iterations, the deployed one chosen at start
Spec == Init /\ [][Next]_vars

\* the random-slug iteration alone (it never writes a long: entry)
InitRandom == Init /\ impl = "random"

NextRandom ==
  \/ \E url \in Urls, userId \in UserArgs : shortenUrlRandom(url, userId)
  \/ \E slug \in SlugInputs, clickData \in BOOLEAN :
       getOriginalUrlRandom(slug, clickData)
  \/ \E slug \in SlugInputs, userId \in Users : deleteUrlRandom(slug, userId)
  \/ expireShort

SpecRandom == InitRandom /\ [][NextRandom]_vars

\* the id-derived iteration alone
InitDerived == Init /\ impl = "derived"

NextDerived ==
  \/ \E url \in Urls, userId \in UserArgs : shortenUrlDerived(url, userId)
  \/ \E slug \in SlugInputs : getOriginalUrlDerived(slug)
  \/ \E slug \in SlugInputs, userId \in Users : deleteUrlDerived(slug, userId)
  \/ expireShort
  \/ expireLong

SpecDerived == InitDerived /\ [][NextDerived]_vars

\* a service call finished in this step
CallStep == last'.n = last.n + 1

TypeOK ==
  /\ impl \in {"random", "derived"}
  /\ nextId \in 1..(MaxCalls + 1)
  /\ DOMAIN store \subseteq 1..MaxCalls
  /\ last.n \in 0..MaxCalls
  /\ \A id \in DOMAIN store : store[id].userId \in Users \cup {NULL}

-----------------------------------------------------------------------------
(* Properties *)

Lookups(c) == c["findBySlug"] + c["findById"]

\* C1: two anonymous shortenUrl calls for the same URL, one right after the
\* other and the first on a URL the store does not hold yet, return the same
\* slug, and createUrl runs exactly once across the two calls.
C1_AnonymousIdempotent ==
  [][ ( /\ CallStep
        /\ last.op = "shorten" /\ last'.op = "shorten"
        /\ last.userId = UNDEFINED /\ last'.userId = UNDEFINED
        /\ last.url = last'.url
        /\ last.fresh
        /\ last.error = "" /\ last'.error = "" )
      => ( /\ last'.outSlug = last.outSlug
           /\ last.calls["createUrl"] + last'.calls["createUrl"] = 1 ) ]_vars

\* C2: getOriginalUrl without click data on a slug the cache holds returns the
\* cached URL and makes no repository call at all.
C2_CacheShortCircuit ==
  [][ ( /\ CallStep
        /\ last'.op = "resolve" /\ ~last'.clickData
        /\ last'.slug \in DOMAIN shortCache )
      => ( /\ last'.error = ""
           /\ last'.outUrl = shortCache[last'.slug]
           /\ TotalCalls(last'.calls) = 0 ) ]_vars

\* C3: getOriginalUrl on a slug the cache does not hold and the store does
\* looks the slug up in the store exactly once and leaves the cache holding
\* slug -> originalUrl when it returns.
C3_CacheFallThrough ==
  [][ ( /\ CallStep
        /\ last'.op = "resolve"
        /\ last'.slug \notin DOMAIN shortCache
        /\ findBySlug(store, last'.slug) # {} )
      => ( /\ Lookups(last'.calls) = 1
           /\ last'.slug \in DOMAIN shortCache'
           /\ \A id \in findBySlug(store, last'.slug) :
                shortCache'[last'.slug] = store[id].originalUrl ) ]_vars

\* C4: an anonymous shortenUrl whose URL has a slug cached under long:
\* returns that slug and calls none of findByOriginalUrl, createUrl,
\* updateSlug.
C4_LongCacheHit ==
  [][ ( /\ CallStep
        /\ last'.op = "shorten" /\ last'.userId = UNDEFINED
        /\ last'.url \in DOMAIN longCache )
      => ( /\ last'.error = ""
           /\ last'.outSlug = longCache[last'.url]
           /\ last'.calls["findByOriginalUrl"] = 0
           /\ last'.calls["createUrl"] = 0
           /\ last'.calls["updateSlug"] = 0 ) ]_vars

\* an anonymous shorten was answered without any repository call
C4_Witness ==
  /\ last.op = "shorten" /\ last.userId = UNDEFINED /\ last.error = ""
  /\ last.outSlug # <<>>
  /\ TotalCalls(last.calls) = 0

\* C5: a shortenUrl call that carries a userId leaves the long: cache as it
\* was, whether it reuses a record or creates one.
C5_OwnedNeverCachesLong ==
  [][ ( CallStep /\ last'.op = "shorten" /\ last'.userId \in Users )
      => longCache' = longCache ]_vars

\* an owned shorten reused an existing record of the same URL
C5_Witness ==
  /\ last.op = "shorten" /\ last.userId \in Users /\ last.error = ""
  /\ last.calls["findByOriginalUrl"] = 1 /\ last.calls["createUrl"] = 0

\* C6: every long: entry holds the slug of a record without owner.
C6_LongCacheAnonymousOnly ==
  \A u \in DOMAIN longCache :
    \A id \in findBySlug(store, longCache[u]) : store[id].userId = NULL

\* C7: the slug shortenUrl returns to user U is the slug of a record U owns.
C7_OwnedSlugBelongsToCaller ==
  [][ ( /\ CallStep
        /\ last'.op = "shorten" /\ last'.userId \in Users
        /\ last'.error = "" )
      => \A id \in findBySlug(store', last'.outSlug) :
           store'[id].userId = last'.userId ]_vars

\* C8: deleteUrl by a user on a record another user owns fails with "Access
\* denied" and changes neither the store nor the cache.
C8_DeleteDeniedFrame ==
  [][ ( /\ CallStep
        /\ last'.op = "delete"
        /\ \E id \in findBySlug(store, last'.slug) :
             store[id].userId \in Users \ {last'.userId} )
      => ( /\ last'.error = AccessDenied
           /\ store' = store
           /\ clicks' = clicks
           /\ shortCache' = shortCache
           /\ longCache' = longCache ) ]_vars

\* a delete was denied on a record of another user whose slug is cached
C8_Witness ==
  /\ last.op = "delete" /\ last.error = AccessDenied
  /\ \E id \in findBySlug(store, last.slug) :
       store[id].userId \in Users \ {last.userId}
  /\ last.slug \in DOMAIN shortCache

\* C9: when deleteUrl succeeds the record is gone and the cache holds neither
\* the entry of the slug nor the long: entry of the record's URL.
C9_DeleteEvictsBoth ==
  [][ ( CallStep /\ last'.op = "delete" /\ last'.error = "" )
      => ( /\ findBySlug(store', last'.slug) = {}
           /\ last'.slug \notin DOMAIN shortCache'
           /\ last'.url \notin DOMAIN longCache' ) ]_vars

\* C10: getOriginalUrl of a slug whose deleteUrl succeeded, and which no
\* record carries any more, fails with "URL not found".
C10_DeletedNeverResolves ==
  ( /\ last.op = "resolve"
    /\ last.slug \in deleted
    /\ findBySlug(store, last.slug) = {} )
  => last.error = NotFound

-----------------------------------------------------------------------------
(* HTTP boundary: UrlController over the service outcome *)

\* class of the object a service call throws: every throw of both iterations
\* is `new Error(message)`, none constructs a NotFoundError
thrownClass(error) == "Error"

\* UrlController.redirectToUrl: redirect on success, 404 for an
\* `instanceof NotFoundError`, 500 for everything else
redirectToUrl(call) ==
  IF call.error = "" THEN 302
  ELSE IF thrownClass(call.error) = "NotFoundError" THEN 404
  ELSE 500

\* UrlController.deleteUrl: 200 on success, 404 / 403 by error class, else 500
deleteUrlStatus(call) ==
  IF call.error = "" THEN 200
  ELSE IF thrownClass(call.error) = "NotFoundError" THEN 404
  ELSE IF thrownClass(call.error) = "AuthorizationError" THEN 403
  ELSE 500

\* C11: getOriginalUrl and deleteUrl on a slug that no record carries and the
\* cache does not hold fail with "URL not found", and the controller answers
\* the request with 404.
C11_NotFoundIs404 ==
  [][ ( /\ CallStep
        /\ last'.op \in {"resolve", "delete"}
        /\ findBySlug(store, last'.slug) = {}
        /\ last'.slug \notin DOMAIN shortCache )
      => ( /\ last'.error = NotFound
           /\ IF last'.op = "resolve"
              THEN redirectToUrl(last') = 404
              ELSE deleteUrlStatus(last') = 404 ) ]_vars

\* the service half of C11 alone: the error is "URL not found"
NotFoundMessage ==
  [][ ( /\ CallStep
        /\ last'.op \in {"resolve", "delete"}
        /\ findBySlug(store, last'.slug) = {}
        /\ last'.slug \notin DOMAIN shortCache )
      => last'.error = NotFound ]_vars

-----------------------------------------------------------------------------
(* The codec on its own: src/src/utils/base62.util.ts *)

\* ids 0..MaxHi are followed as the high part of an encoded number
MaxHi == 20

RECURSIVE Pow62(_)
Pow62(k) == IF k = 0 THEN 1 ELSE 62 * Pow62(k - 1)

\* A JavaScript number holds 62^6 exactly; a TLC integer (32 bits) does not.
\* A number n is therefore carried as hi = floor(n / 62) and lo = n % 62.
HiInputs ==
  (0..MaxHi) \cup { Pow62(k) - 1 : k \in 1..5 } \cup { Pow62(k) : k \in 1..5 }

\* n < 62^6, the numbers whose representation fits in 6 characters
InWidth(hi) == hi < Pow62(5)

\* toBase62(62 * hi + lo): for n > 0 the first turn of the loop prepends
\* base62Chars[n % 62] and goes on with floor(n / 62)
toBase62Wide(hi, lo) ==
  IF hi = 0 THEN toBase62(lo)
  ELSE padLeft(toBase62Digits(hi, <<base62Chars[lo + 1]>>))

\* toBase10(code) as hi and lo: the last turn of the loop computes
\* id * 62 + indexOf(last character)
toBase10Wide(code) ==
  IF code = <<>> THEN [ hi |-> 0, lo |-> 0 ]
  ELSE [ hi |-> toBase10(SubSeq(code, 1, Len(code) - 1)),
         lo |-> indexOf(code[Len(code)]) ]

\* strings with a character outside the alphabet
MalformedCodes ==
  { <<"!">>, <<"1", "!">>, <<"0", "0", "0", "0", "1", "-">>,
    <<"a", " ", "b">> }

InAlphabet(code) == \A i \in 1..Len(code) : indexOf(code[i]) # -1

\* one application of toBase62, on a number drawn from the inputs
toBase62Step ==
  /\ last.n = 0
  /\ \E hi \in HiInputs, lo \in 0..61 :
       last' = [ hi |-> hi, lo |-> lo ] @@
               Call("toBase62", "", UNDEFINED, <<>>, FALSE,
                    toBase62Wide(hi, lo), "", "", NoCalls, FALSE)
  /\ UNCHANGED <<impl, inflight, store, nextId, clicks, shortCache, longCache, deleted>>

\* one application of toBase10: on the string toBase62 just returned, or on a
\* malformed string. toBase10 has no throw: it always returns a number.
toBase10Step ==
  /\ \E code \in (IF last.op = "toBase62" THEN {last.outSlug}
                  ELSE IF last.n = 0 THEN MalformedCodes ELSE {}) :
       last' = toBase10Wide(code) @@
               Call("toBase10", "", UNDEFINED, code, FALSE, <<>>, "", "",
                    NoCalls, FALSE)
  /\ UNCHANGED <<impl, inflight, store, nextId, clicks, shortCache, longCache, deleted>>

\* the codec and the handlers that hand out its slugs
NextCodec ==
  \/ toBase62Step
  \/ toBase10Step
  \/ /\ last.op \in {"none", "shorten"}
     /\ \E url \in Urls, userId \in UserArgs : shortenUrlRandom(url, userId)
  \/ /\ last.op \in {"none", "shorten"}
     /\ \E url \in Urls, userId \in UserArgs : shortenUrlDerived(url, userId)

SpecCodec == Init /\ [][NextCodec]_vars

\* C12: decoding what toBase62 returned for n gives n back, for every n from
\* 0 up to 62^6 - 1.
C12_RoundTrip ==
  [][ ( /\ last.op = "toBase62" /\ last'.op = "toBase10"
        /\ last'.slug = last.outSlug
        /\ InWidth(last.hi) )
      => ( last'.hi = last.hi /\ last'.lo = last.lo ) ]_vars

\* "ZZZZZZ", the code of 62^6 - 1, was decoded
C12_Witness ==
  /\ last.op = "toBase10"
  /\ last.slug = <<"Z", "Z", "Z", "Z", "Z", "Z">>
  /\ last.hi = Pow62(5) - 1 /\ last.lo = 61

C14_InvalidCharRejected ==
  ( last.op = "toBase10" /\ ~InAlphabet(last.slug) ) => last.error # ""

-----------------------------------------------------------------------------
(* Decode-then-id-lookup on a store that has handed out ids before *)

\* the smallest id a string with a character outside the alphabet decodes
\* to: toBase10("1!") = 1 * 62 + (-1)
AgedId == toBase10(<<"1", "!">>)

\* slugs a client asks for: the slugs of records AgedId and AgedId + 1, and
\* strings that are no slug of any record
DecodeInputs ==
  { toBase62(AgedId), toBase62(AgedId + 1), <<"1", "!">>, <<"!">>, <<"1">> }

\* the id-derived iteration after AgedId - 1 records were created and deleted:
\* the autoincrement sequence does not go back
InitAged ==
  /\ impl = "derived"
  /\ store = EmptyMap
  /\ nextId = AgedId
  /\ clicks = EmptyMap
  /\ shortCache = EmptyMap
  /\ longCache = EmptyMap
  /\ deleted = {}
  /\ inflight = NoRequests
  /\ last = [ n |-> 0, op |-> "none", url |-> "", userId |-> UNDEFINED,
              slug |-> <<>>, clickData |-> FALSE, outSlug |-> <<>>,
              outUrl |-> "", error |-> "", calls |-> NoCalls, fresh |-> FALSE ]

NextAged ==
  \/ \E url \in Urls, userId \in UserArgs : shortenUrlDerived(url, userId)
  \/ \E slug \in DecodeInputs : getOriginalUrlDerived(slug)
  \/ \E slug \in DecodeInputs, userId \in Users : deleteUrlDerived(slug, userId)
  \/ expireShort
  \/ expireLong

SpecAged == InitAged /\ [][NextAged]_vars

\* a slug with a character outside the alphabet, or one whose decoded id is
\* below 1 or no safe integer
Malformed(slug) ==
  \/ ~InAlphabet(slug)
  \/ toBase10(slug) < 1
  \/ ~isSafeInteger(toBase10(slug))

\* C15: getOriginalUrl of the decode-then-id-lookup iteration on a malformed
\* slug fails with "URL not found" and returns the URL of no record.
C15_MalformedNotFound ==
  ( last.op = "resolve" /\ Malformed(last.slug) )
  => ( last.error = NotFound /\ last.outUrl = "" )

\* the store path of the two resolves: the URL returned, or "" for the
\* "URL not found" failure
resolveBySlug(st, slug) ==
  LET rec == findBySlug(st, slug)
  IN  IF rec = {} THEN "" ELSE st[CHOOSE id \in rec : TRUE].originalUrl

resolveById(st, slug) ==
  LET id == toBase10(slug)
  IN  IF ~isSafeInteger(id) \/ id < 1 THEN ""
      ELSE IF findById(st, id) = {} THEN ""
      ELSE st[id].originalUrl

\* C16: on the same store, the direct-slug-lookup resolve and the
\* decode-then-id-lookup resolve return the same URL or both fail with not
\* found, for every slug string a client sends.
C16_ResolveVariantsAgree ==
  \A slug \in SlugInputs : resolveBySlug(store, slug) = resolveById(store, slug)

\* the same comparison on the six-character alphabet strings alone
ResolveVariantsAgreeOnSlugs ==
  \A slug \in SlugInputs :
    ( Len(slug) = 6 /\ InAlphabet(slug) )
    => resolveBySlug(store, slug) = resolveById(store, slug)

-----------------------------------------------------------------------------
(* Infrastructure failures: a Redis or Prisma call that rejects *)

\* number of calls that reject within one handler run
MaxFaults == 1

\* error a rejected repository call throws, and a rejected redis call
StoreError == "store unavailable"
CacheError == "cache unavailable"
\* prisma.url.create while another row still carries the placeholder slug ""
UniqueViolation == "Unique constraint failed on the fields: (slug)"

CacheSites == { "cache.get", "cache.set", "cache.del" }
StoreSites == { "findByOriginalUrl", "findBySlug", "findById", "createUrl",
                "updateSlug", "incrementHitCount", "deleteUrl" }
ClickSites == { "trackClick.findBySlug", "analytics.trackClick" }

\* the calls that reject in one handler run
FaultSets(sites) == { F \in SUBSET sites : Cardinality(F) <= MaxFaults }

\* the observation of a call, with the calls that rejected during it
CallF(failed, op, url, userId, slug, clickData, outSlug, outUrl, error,
      calls, fresh) ==
  [ failed |-> failed ] @@
  Call(op, url, userId, slug, clickData, outSlug, outUrl, error, calls, fresh)

-----------------------------------------------------------------------------
(* Iteration "derived" under failures: src/unnamed/part_002 *)

\* the catch around the store path of getOriginalUrl: whatever was thrown,
\* `throw new Error("URL not found")`
lookupCatch(error) == NotFound

\* shortenUrl: neither the redis calls nor the repository calls are guarded
shortenUrlDerivedF(url, userId, F) ==
  /\ impl = "derived"
  /\ last.n < MaxCalls
  /\ LET anon       == Anonymous(userId)
         cachedSlug == IF anon THEN cacheGet(longCache, url) ELSE {}
         found      == findByOriginalUrl(store, url)
         c0         == Called(NoCalls, {"findByOriginalUrl"})
         c1         == Called(c0, {"createUrl"})
         c2         == Called(c1, {"updateSlug"})
         slug       == toBase62(nextId)
     IN  IF anon /\ "cache.get" \in F
         THEN /\ last' = CallF({"cache.get"}, "shorten", url, userId, <<>>,
                               FALSE, <<>>, "", CacheError, NoCalls, found = {})
              /\ UNCHANGED <<impl, inflight, store, nextId, clicks, shortCache,
                             longCache, deleted>>
         ELSE IF cachedSlug # {}
         THEN /\ last' = CallF({}, "shorten", url, userId, <<>>, FALSE,
                               CHOOSE x \in cachedSlug : TRUE, "", "", NoCalls,
                               found = {})
              /\ UNCHANGED <<impl, inflight, store, nextId, clicks, shortCache,
                             longCache, deleted>>
         ELSE IF "findByOriginalUrl" \in F
         THEN /\ last' = CallF({"findByOriginalUrl"}, "shorten", url, userId,
                               <<>>, FALSE, <<>>, "", StoreError, c0, found = {})
              /\ UNCHANGED <<impl, inflight, store, nextId, clicks, shortCache,
                             longCache, deleted>>
         ELSE \E existing \in (IF found = {} THEN {NoRow} ELSE found) :
                IF existing # NoRow /\ store[existing].slug # <<>>
                THEN IF anon /\ "cache.set" \in F
                     THEN /\ last' = CallF({"cache.set"}, "shorten", url,
                                           userId, <<>>, FALSE, <<>>, "",
                                           CacheError, c0, found = {})
                          /\ UNCHANGED <<impl, inflight, store, nextId, clicks,
                                         shortCache, longCache, deleted>>
                     ELSE /\ longCache' = IF anon
                                          THEN cacheSet(longCache, url,
                                                        store[existing].slug)
                                          ELSE longCache
                          /\ last' = CallF({}, "shorten", url, userId, <<>>,
                                           FALSE, store[existing].slug, "", "",
                                           c0, found = {})
                          /\ UNCHANGED <<impl, inflight, store, nextId, clicks,
                                         shortCache, deleted>>
                ELSE IF "createUrl" \in F
                THEN /\ last' = CallF({"createUrl"}, "shorten", url, userId,
                                      <<>>, FALSE, <<>>, "", StoreError, c1,
                                      found = {})
                     /\ UNCHANGED <<impl, inflight, store, nextId, clicks, shortCache,
                                    longCache, deleted>>
                ELSE IF findBySlug(store, <<>>) # {}
                THEN \* slug is @unique and a row with slug "" is left over;
                     \* the sequence value is spent all the same
                     /\ nextId' = nextId + 1
                     /\ last' = CallF({}, "shorten", url, userId, <<>>, FALSE,
                                      <<>>, "", UniqueViolation, c1, found = {})
                     /\ UNCHANGED <<impl, inflight, store, clicks, shortCache,
                                    longCache, deleted>>
                ELSE IF "updateSlug" \in F
                THEN /\ store' = createUrl(store, nextId, url, userId)
                     /\ nextId' = nextId + 1
                     /\ last' = CallF({"updateSlug"}, "shorten", url, userId,
                                      <<>>, FALSE, <<>>, "", StoreError, c2,
                                      found = {})
                     /\ UNCHANGED <<impl, inflight, clicks, shortCache, longCache,
                                    deleted>>
                ELSE IF anon /\ "cache.set" \in F
                THEN /\ store' = updateSlug(
                                   createUrl(store, nextId, url, userId),
                                   nextId, slug)
                     /\ nextId' = nextId + 1
                     /\ last' = CallF({"cache.set"}, "shorten", url, userId,
                                      <<>>, FALSE, <<>>, "", CacheError, c2,
                                      found = {})
                     /\ UNCHANGED <<impl, inflight, clicks, shortCache, longCache,
                                    deleted>>
                ELSE /\ store' = updateSlug(
                                   createUrl(store, nextId, url, userId),
                                   nextId, slug)
                     /\ nextId' = nextId + 1
                     /\ longCache' = IF anon THEN cacheSet(longCache, url, slug)
                                     ELSE longCache
                     /\ last' = CallF({}, "shorten", url, userId, <<>>, FALSE,
                                      slug, "", "", c2, found = {})
                     /\ UNCHANGED <<impl, inflight, clicks, shortCache, deleted>>

\* getOriginalUrl: redis.get stands outside every try; findById,
\* incrementHitCount and redis.set stand inside the try whose catch is
\* lookupCatch
getOriginalUrlDerivedF(slug, F) ==
  /\ impl = "derived"
  /\ last.n < MaxCalls
  /\ LET cached == cacheGet(shortCache, slug)
         id     == toBase10(slug)
         rec    == findById(store, id)
         c1     == Called(NoCalls, {"findById"})
         c2     == Called(c1, {"incrementHitCount"})
     IN  IF "cache.get" \in F
         THEN /\ last' = CallF({"cache.get"}, "resolve", "", UNDEFINED, slug,
                               FALSE, <<>>, "", CacheError, NoCalls, FALSE)
              /\ UNCHANGED <<impl, inflight, store, nextId, clicks, shortCache,
                             longCache, deleted>>
         ELSE IF cached # {}
         THEN /\ last' = CallF({}, "resolve", "", UNDEFINED, slug, FALSE, <<>>,
                               CHOOSE u \in cached : TRUE, "", NoCalls, FALSE)
              /\ UNCHANGED <<impl, inflight, store, nextId, clicks, shortCache,
                             longCache, deleted>>
         ELSE IF ~isSafeInteger(id) \/ id < 1
         THEN /\ last' = CallF({}, "resolve", "", UNDEFINED, slug, FALSE, <<>>,
                               "", NotFound, NoCalls, FALSE)
              /\ UNCHANGED <<impl, inflight, store, nextId, clicks, shortCache,
                             longCache, deleted>>
         ELSE IF "findById" \in F
         THEN /\ last' = CallF({"findById"}, "resolve", "", UNDEFINED, slug,
                               FALSE, <<>>, "", lookupCatch(StoreError), c1,
                               FALSE)
              /\ UNCHANGED <<impl, inflight, store, nextId, clicks, shortCache,
                             longCache, deleted>>
         ELSE IF rec = {}
         THEN /\ last' = CallF({}, "resolve", "", UNDEFINED, slug, FALSE, <<>>,
                               "", lookupCatch(NotFound), c1, FALSE)
              /\ UNCHANGED <<impl, inflight, store, nextId, clicks, shortCache,
                             longCache, deleted>>
         ELSE IF "incrementHitCount" \in F
         THEN /\ last' = CallF({"incrementHitCount"}, "resolve", "", UNDEFINED,
                               slug, FALSE, <<>>, "", lookupCatch(StoreError),
                               c2, FALSE)
              /\ UNCHANGED <<impl, inflight, store, nextId, clicks, shortCache,
                             longCache, deleted>>
         ELSE IF "cache.set" \in F
         THEN /\ store' = incrementHitCount(store, store[id].slug)
              /\ last' = CallF({"cache.set"}, "resolve", "", UNDEFINED, slug,
                               FALSE, <<>>, "", lookupCatch(CacheError), c2,
                               FALSE)
              /\ UNCHANGED <<impl, inflight, nextId, clicks, shortCache, longCache,
                             deleted>>
         ELSE /\ store' = incrementHitCount(store, store[id].slug)
              /\ shortCache' = cacheSet(shortCache, slug, store[id].originalUrl)
              /\ last' = CallF({}, "resolve", "", UNDEFINED, slug, FALSE, <<>>,
                               store[id].originalUrl, "", c2, FALSE)
              /\ UNCHANGED <<impl, inflight, nextId, clicks, longCache, deleted>>

\* deleteUrl: two unguarded repository calls, no cache call
deleteUrlDerivedF(slug, userId, F) ==
  /\ impl = "derived"
  /\ last.n < MaxCalls
  /\ LET rec == findBySlug(store, slug)
         c0  == Called(NoCalls, {"findBySlug"})
         c1  == Called(c0, {"deleteUrl"})
     IN  IF "findBySlug" \in F
         THEN /\ last' = CallF({"findBySlug"}, "delete", "", userId, slug,
                               FALSE, <<>>, "", StoreError, c0, FALSE)
              /\ UNCHANGED <<impl, inflight, store, nextId, clicks, shortCache,
                             longCache, deleted>>
         ELSE IF rec = {}
         THEN /\ last' = CallF({}, "delete", "", userId, slug, FALSE, <<>>, "",
                               NotFound, c0, FALSE)
              /\ UNCHANGED <<impl, inflight, store, nextId, clicks, shortCache,
                             longCache, deleted>>
         ELSE LET id == CHOOSE i \in rec : TRUE
              IN  IF ~ownedBy(store[id], userId)
                  THEN /\ last' = CallF({}, "delete", "", userId, slug, FALSE,
                                        <<>>, "", AccessDenied, c0, FALSE)
                       /\ UNCHANGED <<impl, inflight, store, nextId, clicks, shortCache,
                                      longCache, deleted>>
                  ELSE IF "deleteUrl" \in F
                  THEN /\ last' = CallF({"deleteUrl"}, "delete", "", userId,
                                        slug, FALSE, <<>>, "", StoreError, c1,
                                        FALSE)
                       /\ UNCHANGED <<impl, inflight, store, nextId, clicks, shortCache,
                                      longCache, deleted>>
                  ELSE /\ store' = repoDeleteUrl(store, id)
                       /\ clicks' = cascadeClicks(clicks, id)
                       /\ deleted' = deleted \cup {slug}
                       /\ last' = CallF({}, "delete", store[id].originalUrl,
                                        userId, slug, FALSE, <<>>, "", "", c1,
                                        FALSE)
                       /\ UNCHANGED <<impl, inflight, nextId, shortCache, longCache>>

ShortenSitesDerived ==
  { "cache.get", "cache.set", "findByOriginalUrl", "createUrl", "updateSlug" }
ResolveSitesDerived ==
  { "cache.get", "cache.set", "findById", "incrementHitCount" }
DeleteSitesDerived == { "findBySlug", "deleteUrl" }

NextDerivedFaults ==
  \/ \E url \in Urls, userId \in UserArgs,
        F \in FaultSets(ShortenSitesDerived) : shortenUrlDerivedF(url, userId, F)
  \/ \E slug \in SlugInputs, F \in FaultSets(ResolveSitesDerived) :
       getOriginalUrlDerivedF(slug, F)
  \/ \E slug \in SlugInputs, userId \in Users,
        F \in FaultSets(DeleteSitesDerived) : deleteUrlDerivedF(slug, userId, F)
  \/ expireShort
  \/ expireLong

SpecDerivedFaults == InitDerived /\ [][NextDerivedFaults]_vars

\* C17: a cache call that rejects during shortenUrl, getOriginalUrl or
\* deleteUrl is not propagated: the call ends as it would on a cache miss,
\* with the result of the store.
C17_CacheFailureSwallowed ==
  [][ ( /\ CallStep
        /\ last'.failed # {} /\ last'.failed \subseteq CacheSites )
      => ( /\ last'.error # CacheError
           /\ last'.op = "shorten" => last'.error = ""
           /\ last'.op = "resolve"
              => IF resolveById(store, last'.slug) = ""
                 THEN last'.error = NotFound
                 ELSE /\ last'.error = ""
                      /\ last'.outUrl = resolveById(store, last'.slug) ) ]_vars

\* C18: a repository call that rejects during shortenUrl, getOriginalUrl or
\* deleteUrl reaches the caller as that error, not as "URL not found" and not
\* as a success.
C18_StoreFailureSurfaces ==
  [][ ( CallStep /\ last'.failed \cap StoreSites # {} )
      => last'.error = StoreError ]_vars

-----------------------------------------------------------------------------
(* Iteration "random" under failures: src/src/services/url.service.ts *)

\* bug variant: the catch of trackClick throws the error on
trackClickCatch_rethrow(error) == error

\* the catch of trackClick: logger.warn and nothing thrown
trackClickCatch(error) == ""

\* trackClick with its two repository calls inside one try
trackClickF(st, ck, slug, F) ==
  LET rec == findBySlug(st, slug)
      c0  == Called(NoCalls, {"findBySlug"})
  IN  IF "trackClick.findBySlug" \in F
      THEN [ clicks |-> ck, calls |-> c0, failed |-> {"trackClick.findBySlug"},
             thrown |-> trackClickCatch(StoreError) ]
      ELSE IF rec = {}
      THEN [ clicks |-> ck, calls |-> c0, failed |-> {}, thrown |-> "" ]
      ELSE IF "analytics.trackClick" \in F
      THEN [ clicks |-> ck, calls |-> Called(c0, {"trackClick"}),
             failed |-> {"analytics.trackClick"},
             thrown |-> trackClickCatch(StoreError) ]
      ELSE [ clicks |-> trackClickRow(ck, CHOOSE id \in rec : TRUE),
             calls |-> Called(c0, {"trackClick"}), failed |-> {},
             thrown |-> "" ]

\* getOriginalUrl: getCachedUrl and cacheUrlMapping catch the redis
\* rejection themselves, the outer catch logs and throws the same error
getOriginalUrlRandomF(slug, clickData, F) ==
  /\ impl = "random"
  /\ last.n < MaxCalls
  /\ LET f0     == IF "cache.get" \in F THEN {"cache.get"} ELSE {}
         cached == IF "cache.get" \in F THEN {} ELSE cacheGet(shortCache, slug)
         rec    == findBySlug(store, slug)
         c0     == Called(NoCalls, {"findBySlug"})
         c1     == Called(c0, {"incrementHitCount"})
         t      == trackClickF(store, clicks, slug, F)
     IN  IF cached # {}
         THEN /\ clicks' = IF t.thrown = "" THEN t.clicks ELSE clicks
              /\ last' = CallF(f0 \cup t.failed, "resolve", "", UNDEFINED, slug,
                               clickData, <<>>,
                               IF t.thrown = "" THEN CHOOSE u \in cached : TRUE
                               ELSE "",
                               t.thrown, t.calls, FALSE)
              /\ UNCHANGED <<impl, inflight, store, nextId, shortCache, longCache, deleted>>
         ELSE IF "findBySlug" \in F
         THEN /\ last' = CallF(f0 \cup {"findBySlug"}, "resolve", "", UNDEFINED,
                               slug, clickData, <<>>, "", StoreError, c0, FALSE)
              /\ UNCHANGED <<impl, inflight, store, nextId, clicks, shortCache,
                             longCache, deleted>>
         ELSE IF rec = {}
         THEN /\ last' = CallF(f0, "resolve", "", UNDEFINED, slug, clickData,
                               <<>>, "", NotFound, c0, FALSE)
              /\ UNCHANGED <<impl, inflight, store, nextId, clicks, shortCache,
                             longCache, deleted>>
         ELSE IF "incrementHitCount" \in F
         THEN /\ last' = CallF(f0 \cup {"incrementHitCount"}, "resolve", "",
                               UNDEFINED, slug, clickData, <<>>, "", StoreError,
                               c1, FALSE)
              /\ UNCHANGED <<impl, inflight, store, nextId, clicks, shortCache,
                             longCache, deleted>>
         ELSE LET id      == CHOOSE i \in rec : TRUE
                  setFail == t.thrown = "" /\ "cache.set" \in F
              IN  /\ store' = incrementHitCount(store, slug)
                  /\ clicks' = IF t.thrown = "" THEN t.clicks ELSE clicks
                  /\ shortCache' = IF t.thrown = "" /\ ~setFail
                                   THEN cacheSet(shortCache, slug,
                                                 store[id].originalUrl)
                                   ELSE shortCache
                  /\ last' = CallF(f0 \cup t.failed \cup
                                     (IF setFail THEN {"cache.set"} ELSE {}),
                                   "resolve", "", UNDEFINED, slug, clickData,
                                   <<>>,
                                   IF t.thrown = "" THEN store[id].originalUrl
                                   ELSE "",
                                   t.thrown, AddCalls(c1, t.calls), FALSE)
                  /\ UNCHANGED <<impl, inflight, nextId, longCache, deleted>>

ResolveSitesRandom ==
  { "cache.get", "cache.set", "findBySlug", "incrementHitCount" }
  \cup ClickSites

\* number of service calls in one behaviour with failures
MaxFaultCalls == 3

NextRandomFaults ==
  \/ /\ last.n < MaxFaultCalls
     /\ \E url \in Urls, userId \in UserArgs : shortenUrlRandom(url, userId)
  \/ /\ last.n < MaxFaultCalls
     /\ \E slug \in SlugInputs, F \in FaultSets(ResolveSitesRandom) :
          \* redirectToUrl always hands click data over
          getOriginalUrlRandomF(slug, TRUE, F)
  \/ /\ last.n < MaxFaultCalls
     /\ \E slug \in SlugInputs, userId \in Users :
          deleteUrlRandom(slug, userId)
  \/ expireShort

SpecRandomFaults == InitRandom /\ [][NextRandomFaults]_vars

\* C19: when the lookup inside trackClick or the click insert rejects, and no
\* other repository call does, getOriginalUrl still returns the original URL,
\* from the cache or from the store.
C19_ClickFailureHarmless ==
  [][ ( /\ CallStep
        /\ last'.op = "resolve"
        /\ last'.failed \cap ClickSites # {}
        /\ last'.failed \cap StoreSites = {} )
      => ( /\ last'.error = ""
           /\ last'.outUrl \in
                cacheGet(shortCache, last'.slug) \cup
                { store[id].originalUrl :
                    id \in findBySlug(store, last'.slug) } ) ]_vars

\* a resolve served from the store returned the URL although its click
\* insert rejected
C19_Witness ==
  /\ last.op = "resolve"
  /\ "analytics.trackClick" \in last.failed
  /\ last.calls["incrementHitCount"] = 1
  /\ last.error = "" /\ last.outUrl # ""

-----------------------------------------------------------------------------
(* Hit counting *)

\* the record a resolve of slug reads on the store path of the deployed
\* iteration: by slug, or by the decoded id
Resolved(st, slug) ==
  IF impl = "random" THEN findBySlug(st, slug)
  ELSE IF isSafeInteger(toBase10(slug)) /\ toBase10(slug) >= 1
       THEN findById(st, toBase10(slug))
       ELSE {}

\* C20 as stated: every successful getOriginalUrl, served from the cache or
\* from the store, increments the hitCount of the record by exactly 1.
C20_HitCountEveryResolve ==
  [][ ( CallStep /\ last'.op = "resolve" /\ last'.error = "" )
      => \A id \in Resolved(store, last'.slug) :
           /\ id \in DOMAIN store'
           /\ store'[id].hitCount = store[id].hitCount + 1 ]_vars

\* C20: a successful getOriginalUrl served from the store (the slug is not
\* cached) increments the hitCount of the record by exactly 1 and touches no
\* other hitCount; one served from the cache leaves the store as it was.
C20_HitCountOnStorePath ==
  [][ ( CallStep /\ last'.op = "resolve" /\ last'.error = "" )
      => IF last'.slug \in DOMAIN shortCache
         THEN store' = store
         ELSE /\ Resolved(store, last'.slug) # {}
              /\ DOMAIN store' = DOMAIN store
              /\ \A i \in DOMAIN store :
                   store'[i].hitCount =
                     store[i].hitCount +
                       (IF i \in Resolved(store, last'.slug) THEN 1 ELSE 0) ]_vars

\* a resolve served from the store counted the hit of a record without owner
C20_Witness ==
  /\ last.op = "resolve" /\ last.error = ""
  /\ last.calls["incrementHitCount"] = 1
  /\ \E id \in Resolved(store, last.slug) :
       store[id].hitCount >= 1 /\ store[id].userId = NULL

-----------------------------------------------------------------------------
(* Requests in flight, iteration "derived": shortenUrl of                  *)
(* src/unnamed/part_002:13-71 with one action per await                    *)

\* requests started in one behaviour
MaxRequests == 3

InFlight == { p \in Procs : inflight[p].pc # "idle" }

Started == last.n + Cardinality(InFlight)

\* bug variant: the slug does not depend on the id
allocateSlug_constant(id) == toBase62(1)

\* `const slug = toBase62(url.id)`
allocateSlug(id) == toBase62(id)

\* the request of p goes on at pc with the locals given
Goto(p, pc, locals) ==
  inflight' = [ inflight EXCEPT ![p] = locals @@ [ pc |-> pc ] @@ inflight[p] ]

\* the shortenUrl of p returns (outSlug) or throws (error)
FinishShorten(p, failed, outSlug, error, calls) ==
  /\ last' = CallF(failed, "shorten", inflight[p].url, inflight[p].userId,
                   <<>>, FALSE, outSlug, "", error, calls, inflight[p].fresh)
  /\ inflight' = [ inflight EXCEPT ![p] = [ pc |-> "idle" ] ]

\* a client calls shortenUrl; the first await is redis.get for an anonymous
\* call and findByOriginalUrl otherwise
beginShortenDerived(p, url, userId) ==
  /\ impl = "derived"
  /\ inflight[p].pc = "idle"
  /\ Started < MaxRequests
  /\ inflight' = [ inflight EXCEPT ![p] =
                     [ pc |-> IF Anonymous(userId) THEN "longGet" ELSE "find",
                       url |-> url, userId |-> userId, id |-> 0,
                       slug |-> <<>>, calls |-> NoCalls, fresh |-> FALSE ] ]
  /\ UNCHANGED <<impl, store, nextId, clicks, shortCache, longCache, last,
                 deleted>>

\* await redis.get(long:<originalUrl>)
longGetDerived(p) ==
  /\ inflight[p].pc = "longGet"
  /\ LET cachedSlug == cacheGet(longCache, inflight[p].url)
     IN  IF cachedSlug # {}
         THEN FinishShorten(p, {}, CHOOSE x \in cachedSlug : TRUE, "",
                            inflight[p].calls)
         ELSE /\ Goto(p, "find", [ id |-> 0 ])
              /\ UNCHANGED last
  /\ UNCHANGED <<impl, store, nextId, clicks, shortCache, longCache, deleted>>

\* await findByOriginalUrl(originalUrl)
findExistingDerived(p) ==
  /\ inflight[p].pc = "find"
  /\ LET found == findByOriginalUrl(store, inflight[p].url)
         c0    == Called(inflight[p].calls, {"findByOriginalUrl"})
     IN  \E existing \in (IF found = {} THEN {NoRow} ELSE found) :
           IF existing # NoRow /\ store[existing].slug # <<>>
           THEN IF Anonymous(inflight[p].userId)
                THEN /\ Goto(p, "longSet",
                             [ slug |-> store[existing].slug, calls |-> c0,
                               fresh |-> FALSE ])
                     /\ UNCHANGED last
                ELSE FinishShorten(p, {}, store[existing].slug, "", c0)
           ELSE /\ Goto(p, "create", [ calls |-> c0, fresh |-> found = {} ])
                /\ UNCHANGED last
  /\ UNCHANGED <<impl, store, nextId, clicks, shortCache, longCache, deleted>>

\* await createUrl(...): the row is inserted with slug "", and slug is
\* @unique, so the insert is refused while another row carries ""
createDerived(p) ==
  /\ inflight[p].pc = "create"
  /\ LET c1 == Called(inflight[p].calls, {"createUrl"})
     IN  IF findBySlug(store, <<>>) # {}
         THEN /\ FinishShorten(p, {"createUrl"}, <<>>, UniqueViolation, c1)
              /\ UNCHANGED store
         ELSE /\ store' = createUrl(store, nextId, inflight[p].url,
                                    inflight[p].userId)
              /\ Goto(p, "update", [ id |-> nextId, calls |-> c1 ])
              /\ UNCHANGED last
  /\ nextId' = nextId + 1
  /\ UNCHANGED <<impl, clicks, shortCache, longCache, deleted>>

\* await updateSlug(url.id, toBase62(url.id))
attachSlugDerived(p) ==
  /\ inflight[p].pc = "update"
  /\ LET id   == inflight[p].id
         slug == allocateSlug(id)
         c2   == Called(inflight[p].calls, {"updateSlug"})
     IN  IF findBySlug(store, slug) \ {id} # {}
         THEN /\ FinishShorten(p, {"updateSlug"}, <<>>, UniqueViolation, c2)
              /\ UNCHANGED <<store, longCache>>
         ELSE /\ store' = updateSlug(store, id, slug)
              /\ IF Anonymous(inflight[p].userId)
                 THEN /\ Goto(p, "longSet", [ slug |-> slug, calls |-> c2 ])
                      /\ UNCHANGED last
                 ELSE FinishShorten(p, {}, slug, "", c2)
              /\ UNCHANGED longCache
  /\ UNCHANGED <<impl, nextId, clicks, shortCache, deleted>>

\* await redis.set(long:<originalUrl>, slug), then return { slug }
longSetDerived(p) ==
  /\ inflight[p].pc = "longSet"
  /\ longCache' = cacheSet(longCache, inflight[p].url, inflight[p].slug)
  /\ FinishShorten(p, {}, inflight[p].slug, "", inflight[p].calls)
  /\ UNCHANGED <<impl, store, nextId, clicks, shortCache, deleted>>

\* the slugs of the first records
FirstSlugs == { toBase62(i) : i \in 1..PoolSize }

\* shortenUrl runs await by await; getOriginalUrl and deleteUrl of other
\* clients run in between
NextDerivedAsync ==
  \/ \E p \in Procs, url \in Urls, userId \in UserArgs :
       beginShortenDerived(p, url, userId)
  \/ \E p \in Procs : longGetDerived(p)
  \/ \E p \in Procs : findExistingDerived(p)
  \/ \E p \in Procs : createDerived(p)
  \/ \E p \in Procs : attachSlugDerived(p)
  \/ \E p \in Procs : longSetDerived(p)
  \/ /\ Started < MaxRequests
     /\ \E slug \in FirstSlugs : getOriginalUrlDerived(slug)
  \/ /\ Started < MaxRequests
     /\ \E slug \in FirstSlugs, userId \in Users : deleteUrlDerived(slug, userId)

SpecDerivedAsync == InitDerived /\ [][NextDerivedAsync]_vars

\* C21: in the id-derived shortenUrl every record with an attached slug has
\* slug = toBase62(id), no two records share an attached slug, and no
\* updateSlug is refused for a duplicate slug.
C21_DerivedSlugsCollisionFree ==
  /\ \A id \in DOMAIN store :
       store[id].slug # <<>> => store[id].slug = toBase62(id)
  /\ \A i, j \in DOMAIN store :
       ( i # j /\ store[i].slug # <<>> ) => store[i].slug # store[j].slug
  /\ ~( last.op = "shorten" /\ "updateSlug" \in last.failed )

\* two records carry their slugs, the second attached while the id sequence
\* had moved on
C21_Witness ==
  /\ Cardinality({ id \in DOMAIN store : store[id].slug # <<>> }) >= 2
  /\ nextId >= 3
  /\ last.op = "shorten" /\ last.calls["updateSlug"] = 1 /\ last.error = ""

-----------------------------------------------------------------------------
(* Slug allocation by random draw *)

\* C22: generateUniqueSlug makes at most 10 draws with one findBySlug per
\* draw, returns only a slug the store did not hold when it was checked, and
\* after 10 colliding draws shortenUrl fails without having created a record.
C22_BoundedRetry ==
  [][ ( CallStep /\ last'.op = "shorten" /\ impl = "random" )
      => ( /\ last'.calls["findBySlug"] <= maxAttempts
           /\ last'.error = SlugExhausted
              => ( /\ last'.calls["findBySlug"] = maxAttempts
                   /\ last'.calls["createUrl"] = 0
                   /\ store' = store )
           /\ ( last'.error = "" /\ last'.calls["createUrl"] = 1 )
              => ( /\ last'.calls["findBySlug"] >= 1
                   /\ findBySlug(store, last'.outSlug) = {} ) ) ]_vars

\* a shortenUrl gave up after maxAttempts colliding draws
C22_Witness ==
  /\ last.op = "shorten"
  /\ last.error = SlugExhausted
  /\ last.calls["findBySlug"] = maxAttempts

-----------------------------------------------------------------------------
(* Requests in flight, iteration "random": the handlers of                 *)
(* src/src/services/url.service.ts with one action per await               *)

\* prisma update / delete on a row that is gone
RecordGone == "Record to update or delete does not exist"

beginShortenRandom(p, url, userId) ==
  /\ impl = "random"
  /\ inflight[p].pc = "idle"
  /\ Started < MaxRequests
  /\ inflight' = [ inflight EXCEPT ![p] =
                     [ pc |-> "find", url |-> url, userId |-> userId,
                       id |-> 0, slug |-> <<>>, attempts |-> 0,
                       calls |-> NoCalls, fresh |-> FALSE ] ]
  /\ UNCHANGED <<impl, store, nextId, clicks, shortCache, longCache, last,
                 deleted>>

\* await findByOriginalUrl(originalUrl) and the reuse check
findExistingRandom(p) ==
  /\ inflight[p].pc = "find"
  /\ LET found == findByOriginalUrl(store, inflight[p].url)
         c0    == Called(inflight[p].calls, {"findByOriginalUrl"})
     IN  \E existing \in (IF found = {} THEN {NoRow} ELSE found) :
           IF existing # NoRow /\ sameUser(store[existing], inflight[p].userId)
           THEN FinishShorten(p, {}, store[existing].slug, "", c0)
           ELSE /\ Goto(p, "draw", [ calls |-> c0, fresh |-> found = {} ])
                /\ UNCHANGED last
  /\ UNCHANGED <<impl, store, nextId, clicks, shortCache, longCache, deleted>>

\* one turn of the loop of generateUniqueSlug: a draw and await findBySlug
drawSlugRandom(p) ==
  /\ inflight[p].pc = "draw"
  /\ LET c1 == Called(inflight[p].calls, {"findBySlug"})
     IN  \E s \in generateSlug :
           IF findBySlug(store, s) = {}
           THEN /\ Goto(p, "create", [ slug |-> s, calls |-> c1 ])
                /\ UNCHANGED last
           ELSE IF inflight[p].attempts + 1 < maxAttempts
           THEN /\ Goto(p, "draw", [ attempts |-> inflight[p].attempts + 1,
                                     calls |-> c1 ])
                /\ UNCHANGED last
           ELSE FinishShorten(p, {}, <<>>, SlugExhausted, c1)
  /\ UNCHANGED <<impl, store, nextId, clicks, shortCache, longCache, deleted>>

\* await createUrl(...): inserted with slug "", refused while another row
\* carries ""
createRandom(p) ==
  /\ inflight[p].pc = "create"
  /\ LET c2 == Called(inflight[p].calls, {"createUrl"})
     IN  IF findBySlug(store, <<>>) # {}
         THEN /\ FinishShorten(p, {"createUrl"}, <<>>, UniqueViolation, c2)
              /\ UNCHANGED store
         ELSE /\ store' = createUrl(store, nextId, inflight[p].url,
                                    inflight[p].userId)
              /\ Goto(p, "update", [ id |-> nextId, calls |-> c2 ])
              /\ UNCHANGED last
  /\ nextId' = nextId + 1
  /\ UNCHANGED <<impl, clicks, shortCache, longCache, deleted>>

\* await updateSlug(urlRecord.id, slug): refused when another row has taken
\* the slug since it was checked
attachSlugRandom(p) ==
  /\ inflight[p].pc = "update"
  /\ LET id   == inflight[p].id
         slug == inflight[p].slug
         c3   == Called(inflight[p].calls, {"updateSlug"})
     IN  IF findBySlug(store, slug) \ {id} # {}
         THEN /\ FinishShorten(p, {"updateSlug"}, <<>>, UniqueViolation, c3)
              /\ UNCHANGED store
         ELSE /\ store' = updateSlug(store, id, slug)
              /\ IF Anonymous(inflight[p].userId)
                 THEN /\ Goto(p, "shortSet", [ calls |-> c3 ])
                      /\ UNCHANGED last
                 ELSE FinishShorten(p, {}, slug, "", c3)
  /\ UNCHANGED <<impl, nextId, clicks, shortCache, longCache, deleted>>

\* await cacheUrlMapping(slug, originalUrl), then return
shortSetRandom(p) ==
  /\ inflight[p].pc = "shortSet"
  /\ shortCache' = cacheSet(shortCache, inflight[p].slug, inflight[p].url)
  /\ FinishShorten(p, {}, inflight[p].slug, "", inflight[p].calls)
  /\ UNCHANGED <<impl, store, nextId, clicks, longCache, deleted>>

\* the getOriginalUrl of p returns (outUrl) or throws (error)
FinishResolve(p, outUrl, error, calls) ==
  /\ last' = CallF({}, "resolve", "", UNDEFINED, inflight[p].slug, TRUE, <<>>,
                   outUrl, error, calls, FALSE)
  /\ inflight' = [ inflight EXCEPT ![p] = [ pc |-> "idle" ] ]

\* the deleteUrl of p returns or throws (error)
FinishDelete(p, url, error, calls) ==
  /\ last' = CallF({}, "delete", url, inflight[p].userId, inflight[p].slug,
                   FALSE, <<>>, "", error, calls, FALSE)
  /\ inflight' = [ inflight EXCEPT ![p] = [ pc |-> "idle" ] ]

beginResolveRandom(p, slug) ==
  /\ impl = "random"
  /\ inflight[p].pc = "idle"
  /\ Started < MaxRequests
  /\ inflight' = [ inflight EXCEPT ![p] =
                     [ pc |-> "shortGet", slug |-> slug, url |-> "",
                       calls |-> NoCalls ] ]
  /\ UNCHANGED <<impl, store, nextId, clicks, shortCache, longCache, last,
                 deleted>>

\* await getCachedUrl(slug)
shortGetRandom(p) ==
  /\ inflight[p].pc = "shortGet"
  /\ LET cached == cacheGet(shortCache, inflight[p].slug)
     IN  IF cached # {}
         THEN Goto(p, "trackHit", [ url |-> CHOOSE u \in cached : TRUE ])
         ELSE Goto(p, "lookup", [ url |-> "" ])
  /\ UNCHANGED <<impl, store, nextId, clicks, shortCache, longCache, last,
                 deleted>>

\* await trackClick(slug, clickData) on the cache-hit path, then return
trackHitRandom(p) ==
  /\ inflight[p].pc = "trackHit"
  /\ LET t == trackClick(store, clicks, inflight[p].slug)
     IN  /\ clicks' = t.clicks
         /\ FinishResolve(p, inflight[p].url, "",
                          AddCalls(inflight[p].calls, t.calls))
  /\ UNCHANGED <<impl, store, nextId, shortCache, longCache, deleted>>

\* await findBySlug(slug)
lookupRandom(p) ==
  /\ inflight[p].pc = "lookup"
  /\ LET rec == findBySlug(store, inflight[p].slug)
         c0  == Called(inflight[p].calls, {"findBySlug"})
     IN  IF rec = {}
         THEN FinishResolve(p, "", NotFound, c0)
         ELSE /\ Goto(p, "count",
                      [ url |-> store[CHOOSE i \in rec : TRUE].originalUrl,
                        calls |-> c0 ])
              /\ UNCHANGED last
  /\ UNCHANGED <<impl, store, nextId, clicks, shortCache, longCache, deleted>>

\* await incrementHitCount(slug): prisma.url.update rejects when the row is
\* gone, and the catch of getOriginalUrl throws that error on
countHitRandom(p) ==
  /\ inflight[p].pc = "count"
  /\ LET c1 == Called(inflight[p].calls, {"incrementHitCount"})
     IN  IF findBySlug(store, inflight[p].slug) = {}
         THEN /\ FinishResolve(p, "", RecordGone, c1)
              /\ UNCHANGED store
         ELSE /\ store' = incrementHitCount(store, inflight[p].slug)
              /\ Goto(p, "track", [ calls |-> c1 ])
              /\ UNCHANGED last
  /\ UNCHANGED <<impl, nextId, clicks, shortCache, longCache, deleted>>

\* await trackClick(slug, clickData) on the store path
trackRandom(p) ==
  /\ inflight[p].pc = "track"
  /\ LET t == trackClick(store, clicks, inflight[p].slug)
     IN  /\ clicks' = t.clicks
         /\ Goto(p, "remember",
                 [ calls |-> AddCalls(inflight[p].calls, t.calls) ])
  /\ UNCHANGED <<impl, store, nextId, shortCache, longCache, last, deleted>>

\* await cacheUrlMapping(slug, urlRecord.originalUrl), then return
rememberRandom(p) ==
  /\ inflight[p].pc = "remember"
  /\ shortCache' = cacheSet(shortCache, inflight[p].slug, inflight[p].url)
  /\ FinishResolve(p, inflight[p].url, "", inflight[p].calls)
  /\ UNCHANGED <<impl, store, nextId, clicks, longCache, deleted>>

beginDeleteRandom(p, slug, userId) ==
  /\ impl = "random"
  /\ inflight[p].pc = "idle"
  /\ Started < MaxRequests
  /\ inflight' = [ inflight EXCEPT ![p] =
                     [ pc |-> "owner", slug |-> slug, userId |-> userId,
                       id |-> 0, url |-> "", calls |-> NoCalls ] ]
  /\ UNCHANGED <<impl, store, nextId, clicks, shortCache, longCache, last,
                 deleted>>

\* await findBySlug(slug) and the ownership check
checkOwnerRandom(p) ==
  /\ inflight[p].pc = "owner"
  /\ LET rec == findBySlug(store, inflight[p].slug)
         c0  == Called(inflight[p].calls, {"findBySlug"})
     IN  IF rec = {}
         THEN FinishDelete(p, "", NotFound, c0)
         ELSE LET id == CHOOSE i \in rec : TRUE
              IN  IF ~ownedBy(store[id], inflight[p].userId)
                  THEN FinishDelete(p, "", AccessDenied, c0)
                  ELSE /\ Goto(p, "remove",
                               [ id |-> id, url |-> store[id].originalUrl,
                                 calls |-> c0 ])
                       /\ UNCHANGED last
  /\ UNCHANGED <<impl, store, nextId, clicks, shortCache, longCache, deleted>>

\* await urlRepository.deleteUrl(urlRecord.id)
removeRandom(p) ==
  /\ inflight[p].pc = "remove"
  /\ LET id == inflight[p].id
         c1 == Called(inflight[p].calls, {"deleteUrl"})
     IN  IF id \notin DOMAIN store
         THEN /\ FinishDelete(p, "", RecordGone, c1)
              /\ UNCHANGED <<store, clicks>>
         ELSE /\ store' = repoDeleteUrl(store, id)
              /\ clicks' = cascadeClicks(clicks, id)
              /\ Goto(p, "evict", [ calls |-> c1 ])
              /\ UNCHANGED last
  /\ UNCHANGED <<impl, nextId, shortCache, longCache, deleted>>

\* await removeFromCache(slug), then return
evictRandom(p) ==
  /\ inflight[p].pc = "evict"
  /\ shortCache' = removeFromCache(shortCache, inflight[p].slug)
  /\ deleted' = deleted \cup {inflight[p].slug}
  /\ FinishDelete(p, inflight[p].url, "", inflight[p].calls)
  /\ UNCHANGED <<impl, store, nextId, clicks, longCache>>

\* two requests at a time, each running await by await
NextRandomAsync ==
  \/ \E p \in Procs, url \in Urls, userId \in UserArgs :
       beginShortenRandom(p, url, userId)
  \/ \E p \in Procs : findExistingRandom(p)
  \/ \E p \in Procs : drawSlugRandom(p)
  \/ \E p \in Procs : createRandom(p)
  \/ \E p \in Procs : attachSlugRandom(p)
  \/ \E p \in Procs : shortSetRandom(p)
  \/ \E p \in Procs, slug \in FirstSlugs : beginResolveRandom(p, slug)
  \/ \E p \in Procs : shortGetRandom(p)
  \/ \E p \in Procs : trackHitRandom(p)
  \/ \E p \in Procs : lookupRandom(p)
  \/ \E p \in Procs : countHitRandom(p)
  \/ \E p \in Procs : trackRandom(p)
  \/ \E p \in Procs : rememberRandom(p)
  \/ \E p \in Procs, slug \in FirstSlugs, userId \in Users :
       beginDeleteRandom(p, slug, userId)
  \/ \E p \in Procs : checkOwnerRandom(p)
  \/ \E p \in Procs : removeRandom(p)
  \/ \E p \in Procs : evictRandom(p)

SpecRandomAsync == InitRandom /\ [][NextRandomAsync]_vars

\* C23: in the random-slug shortenUrl a slug collision between requests in
\* flight never surfaces as a refused updateSlug; the only failure a
\* collision causes is the exhaustion of the 10 attempts.
C23_CollisionsRetried ==
  ( last.op = "shorten" /\ last.error # "" /\ last.calls["updateSlug"] = 1 )
  => last.error = SlugExhausted

-----------------------------------------------------------------------------
(* Records of one URL *)

\* the records of url that have no owner
AnonymousRecords(st, url) ==
  { id \in DOMAIN st : st[id].originalUrl = url /\ st[id].userId = NULL }

\* C24: in every reachable state, whatever the interleaving of concurrent
\* anonymous shortenUrl calls, the store holds at most one record without
\* owner per originalUrl.
C24_OneAnonymousRecordPerUrl ==
  \A url \in Urls : Cardinality(AnonymousRecords(store, url)) <= 1

-----------------------------------------------------------------------------
(* The window between createUrl and updateSlug *)

\* records whose slug is still the placeholder ""
Placeholders(st) == findBySlug(st, <<>>)

\* C25: getOriginalUrl never returns the URL of a record whose slug is still
\* the placeholder "", whatever slug it is asked for.
C25_PlaceholderNeverResolved ==
  [][ ( /\ CallStep
        /\ last'.op = "resolve" /\ last'.error = ""
        /\ last'.calls["findById"] = 1 )
      => Resolved(store, last'.slug) \cap Placeholders(store) = {} ]_vars

\* C26: once a shortenUrl call has finished, returning a slug or throwing,
\* the store holds no record with the placeholder slug "".
C26_NoHalfWrittenRecord ==
  (last.n > 0 /\ last.op = "shorten") => Placeholders(store) = {}

\* C27: a shortenUrl call that finishes while another request, for a
\* different URL, is between its createUrl and its updateSlug, completes and
\* returns a slug.
C27_ConcurrentShortensComplete ==
  [][ ( /\ CallStep
        /\ last'.op = "shorten"
        /\ \E q \in Procs : /\ inflight'[q].pc = "update"
                            /\ inflight'[q].url # last'.url )
      => last'.error = "" ]_vars

-----------------------------------------------------------------------------
(* The slug shortenUrl returns *)

\* C28: whenever shortenUrl returns slug s for URL u, the store holds at that
\* moment a record with slug s and originalUrl u.
C28_ReturnedSlugIsStored ==
  [][ (CallStep /\ last'.op = "shorten" /\ last'.error = "")
      => \E id \in findBySlug(store', last'.outSlug) :
              store'[id].originalUrl = last'.url ]_vars

-----------------------------------------------------------------------------
(* Resolve against a concurrent delete *)

\* C29: when a getOriginalUrl(slug) that read the store finishes with no
\* request left in flight and the record of slug has been deleted, the cache
\* holds no short:<slug> entry.
C29_NoRepopulationAfterDelete ==
  [][ ( /\ CallStep
        /\ last'.op = "resolve" /\ last'.error = ""
        /\ last'.calls["incrementHitCount"] = 1
        /\ \A q \in Procs : inflight'[q].pc = "idle"
        /\ last'.slug \in deleted'
        /\ findBySlug(store', last'.slug) = {} )
      => cacheGet(shortCache', last'.slug) = {} ]_vars

-----------------------------------------------------------------------------
(* Hit counts of failed resolves *)

\* the hit counts of the records, by id
hitCounts(st) == [ i \in DOMAIN st |-> st[i].hitCount ]

\* C30: a getOriginalUrl call that throws leaves every record's hitCount
\* unchanged.
C30_FailedResolveCountsNothing ==
  [][ (CallStep /\ last'.op = "resolve" /\ last'.error # "")
      => hitCounts(store') = hitCounts(store) ]_vars

====
